---- MODULE Spec2Model ----
(***************************************************************************)
(* Model of mini-file.c, the in-memory store of a parsed INI file: a       *)
(* MiniFile owns a singly linked list of Section nodes (newest first),     *)
(* every Section owns a singly linked list of SectionData nodes (key and   *)
(* value), and the MiniFile keeps a pointer to the current section.        *)
(*                                                                         *)
(* A linked list is a sequence whose first element is the head node.  A    *)
(* Section pointer is the address of the node (a positive integer), NULL   *)
(* is 0 and an indeterminate pointer is Garbage.  C strings are TLA+       *)
(* strings; a NULL char pointer is NULLSTR.  A call that reads through a  *)
(* pointer that refers to no node, or that fails an assert, returns ABORT. *)
(*                                                                         *)
(* The heap is the set of blocks that malloc and strdup returned and that  *)
(* free has not released.                                                  *)
(*                                                                         *)
(* In Spec malloc of a node may fail; the string copies made by strdup     *)
(* succeed.  SpecOOM adds the calls in which strdup fails, SpecFree adds    *)
(* mini_file_free, SpecLong applies the positional lookup to lists longer  *)
(* than INT_MAX.                                                           *)
(***************************************************************************)
EXTENDS Integers, Sequences, FiniteSets, TLC

(* ---- bounds of the model ---- *)
MaxSections == 4        \* most Section nodes ever allocated
MaxEntries == 2         \* most SectionData nodes ever allocated
WordBits == 4           \* width of int and unsigned int
MaxStrdupFailures == 1  \* most strdup calls that fail

Names == {"A", "B", "C"}        \* section names the caller passes
\* the key and value pairs the caller passes: one key with two values, and
\* a second key
Pairs == {<<"k1", "v1">>, <<"k1", "v2">>, <<"k2", "v1">>}
Keys == {p[1] : p \in Pairs}
Values == {p[2] : p \in Pairs}
NoName == "Z"                   \* a section name that is never inserted
NoKey == "k9"                   \* a key that is never inserted

(* ---- pointers and return values ---- *)
NULL == 0
Garbage == 0 - 1
NULLSTR == "(null)"
ABORT == "abort"
ABORTNUM == 0 - 1
RET_FILE == "mini_file"
RET_NULL == "NULL"
RET_VOID == "void"

UINT_MAX == 2 ^ WordBits - 1
INT_MAX == 2 ^ (WordBits - 1) - 1
\* positions the properties are stated for: every position up to one past
\* the longest list, and the ends of the ranges of int and unsigned int
Positions == (0 .. MaxSections) \cup {INT_MAX, INT_MAX + 1, UINT_MAX}
\* positions the caller passes to the positional queries
QueryPositions == {0, 1, UINT_MAX}

VARIABLES
    section,            \* mini_file->section: the list of Section nodes
    current_section,    \* mini_file->__current_section
    call,               \* the last call made on the MiniFile and its result
    first_selected,     \* history: names in the order of their first successful insertion
    heap                \* the blocks allocated and not freed

vars == <<section, current_section, call, first_selected, heap>>

\* A call of the library, its arguments and what it returned: ret is the
\* pointer or string returned, count the unsigned int returned.
Call(op, name, key, value, ret) ==
    [op |-> op, name |-> name, key |-> key, value |-> value, pos |-> 0,
     ret |-> ret, count |-> 0]

QueryStr(op, name, key, pos, ret) ==
    [op |-> op, name |-> name, key |-> key, value |-> "", pos |-> pos,
     ret |-> ret, count |-> 0]

QueryNum(op, name, count) ==
    [op |-> op, name |-> name, key |-> "", value |-> "", pos |-> 0,
     ret |-> "", count |-> count]

\* The MiniFile structure as the functions of the library receive it.
MiniFile == [section |-> section, current_section |-> current_section]

(* ---- allocation ---- *)

\* A block of the heap: the MiniFile and its file name, a Section (sec is
\* its address) and its name, a SectionData (data is its number in the
\* section, counted from the oldest) and its key and value.
Block(kind, sec, data) == [kind |-> kind, sec |-> sec, data |-> data]

\* strdup: a copy of the string, or NULL when it fails.
strdup(str, strdup_ok) == IF strdup_ok THEN str ELSE NULLSTR

\* mini_file_section_data_new: a new SectionData node, or NULL when malloc
\* fails.  The results of the two strdup calls are stored unchecked.
mini_file_section_data_new(key, value, malloc_ok, key_ok, value_ok) ==
    IF malloc_ok
    THEN <<[key |-> strdup(key, key_ok), value |-> strdup(value, value_ok)]>>
    ELSE <<>>

\* mini_file_section_new: a new Section node at a fresh address, without
\* data.  The result of strdup is stored unchecked.
mini_file_section_new(mini_file, section_name, malloc_ok, strdup_ok) ==
    IF malloc_ok
    THEN <<[addr |-> Len(mini_file.section) + 1,
            name |-> strdup(section_name, strdup_ok), data |-> <<>>]>>
    ELSE <<>>

\* The blocks mini_file_section_new allocated for a Section node.
SectionBlocks(sec) ==
    {Block("Section", sec.addr, 0)}
        \cup (IF sec.name # NULLSTR THEN {Block("name", sec.addr, 0)} ELSE {})

\* The blocks mini_file_section_data_new allocated for the SectionData
\* node number num of the section at address addr.
DataBlocks(addr, num, data) ==
    {Block("SectionData", addr, num)}
        \cup (IF data.key # NULLSTR THEN {Block("key", addr, num)} ELSE {})
        \cup (IF data.value # NULLSTR THEN {Block("value", addr, num)} ELSE {})

(* ---- searches ---- *)

\* The loop of mini_file_find_section from node i on: the address of the
\* first node whose name compares equal, NULL at the end of the list.
RECURSIVE find_section_loop(_, _, _)
find_section_loop(list, i, name) ==
    IF i > Len(list) THEN NULL
    ELSE IF list[i].name = name THEN list[i].addr
    ELSE find_section_loop(list, i + 1, name)

\* Mutant of mini_file_find_section: the comparison never succeeds.
find_section_never(mini_file, name) == NULL

\* Mutant of mini_file_find_section: the loop stops after the head node.
find_section_head_only(mini_file, name) ==
    IF mini_file.section # <<>> /\ mini_file.section[1].name = name
    THEN mini_file.section[1].addr
    ELSE NULL

mini_file_find_section(mini_file, name) ==
    find_section_loop(mini_file.section, 1, name)

\* The node a Section pointer refers to (its position in the list), 0 when
\* the pointer refers to no node of the list.
RECURSIVE node_at_loop(_, _, _)
node_at_loop(list, i, ptr) ==
    IF i > Len(list) THEN 0
    ELSE IF list[i].addr = ptr THEN i
    ELSE node_at_loop(list, i + 1, ptr)

NodeOf(mini_file, ptr) == node_at_loop(mini_file.section, 1, ptr)

\* The loop of mini_file_find_key from node i on: the position of the first
\* SectionData whose key compares equal, 0 (NULL) at the end of the list.
RECURSIVE find_key_loop(_, _, _)
find_key_loop(data, i, key) ==
    IF i > Len(data) THEN 0
    ELSE IF data[i].key = key THEN i
    ELSE find_key_loop(data, i + 1, key)

\* Mutant of mini_file_find_key: the comparison never succeeds.
find_key_never(mini_file, sec, key) ==
    IF NodeOf(mini_file, sec) = 0 THEN ABORTNUM ELSE 0

\* mini_file_find_key: the position of the SectionData in the data list of
\* the section sec points to, 0 for NULL.  The function asserts that sec is
\* not NULL and reads through it: ABORTNUM when sec refers to no section.
mini_file_find_key(mini_file, sec, key) ==
    IF NodeOf(mini_file, sec) = 0 THEN ABORTNUM
    ELSE find_key_loop(mini_file.section[NodeOf(mini_file, sec)].data, 1, key)

(* ---- construction ---- *)

\* mini_file_new: no sections; __current_section is left unassigned.
Init ==
    /\ section = <<>>
    /\ current_section \in {NULL, Garbage}
    /\ call = Call("mini_file_new", "", "", "", RET_FILE)
    /\ first_selected = <<>>
    /\ heap = {Block("MiniFile", 0, 0), Block("file_name", 0, 0)}

(* ---- mutators ---- *)

\* Number of SectionData nodes linked in the whole file.
RECURSIVE TotalEntries(_)
TotalEntries(list) ==
    IF list = <<>> THEN 0 ELSE Len(Head(list).data) + TotalEntries(Tail(list))

\* The elements of a sequence.
Range(seq) == {seq[i] : i \in 1 .. Len(seq)}

\* Mutant of LinkSection: the new node is linked at the end of the list.
LinkSectionAtTail(mini_file, new) == mini_file.section \o new

\* section->next = mini_file->section; mini_file->section = section;
\* the new node becomes the head of the section list.
LinkSection(mini_file, new) == new \o mini_file.section

\* Mutant of MarkCurrent: a section that existed is not made current.
MarkCurrentIfNew(mini_file, sec) ==
    IF NodeOf(mini_file, sec) # 0 THEN mini_file.current_section ELSE sec

\* Mutant of MarkCurrent: a section just created is not made current.
MarkCurrentIfFound(mini_file, sec) ==
    IF NodeOf(mini_file, sec) # 0 THEN sec ELSE mini_file.current_section

\* mini_file->__current_section = section; the new value of the pointer.
MarkCurrent(mini_file, sec) == sec

\* mini_file_insert_section: select the section of that name, creating it
\* at the head of the list when it does not exist, and make it current.
mini_file_insert_section(section_name, malloc_ok, strdup_ok) ==
    LET found == mini_file_find_section(MiniFile, section_name)
        new == mini_file_section_new(MiniFile, section_name, malloc_ok, strdup_ok)
    IN  IF found # NULL
        THEN /\ current_section' = MarkCurrent(MiniFile, found)
             /\ call' = Call("mini_file_insert_section", section_name, "", "", RET_FILE)
             /\ UNCHANGED <<section, first_selected, heap>>
        ELSE IF new = <<>>
        THEN /\ call' = Call("mini_file_insert_section", section_name, "", "", RET_NULL)
             /\ UNCHANGED <<section, current_section, first_selected, heap>>
        ELSE /\ Len(section) < MaxSections
             /\ section' = LinkSection(MiniFile, new)
             /\ current_section' = MarkCurrent(MiniFile, new[1].addr)
             /\ heap' = heap \cup SectionBlocks(new[1])
             /\ call' = Call("mini_file_insert_section", section_name, "", "", RET_FILE)
             /\ first_selected' = IF section_name \in Range(first_selected)
                                  THEN first_selected
                                  ELSE Append(first_selected, section_name)

\* Mutant of NoSectionOrCurrent: only the current section is tested.
NoCurrentOnly(mini_file) == mini_file.current_section = NULL

\* The guard of mini_file_insert_key_and_value: there is no section, or no
\* current section.  The right operand is read only when the left is false.
NoSectionOrCurrent(mini_file) ==
    mini_file.section = <<>> \/ mini_file.current_section = NULL

\* Mutant of LinkData: data->next is not set, the list is replaced.
LinkDataReplacing(mini_file, data) ==
    [mini_file.section EXCEPT ![1].data = data]

\* data->next = mini_file->section->data; mini_file->section->data = data;
\* the new node becomes the head of the data list of the head node of the
\* section list.
LinkData(mini_file, data) ==
    [mini_file.section EXCEPT ![1].data = data \o @]

\* mini_file_insert_key_and_value: add the pair unless the current section
\* already holds the key.
mini_file_insert_key_and_value(key, value, malloc_ok, key_ok, value_ok) ==
    LET found == mini_file_find_key(MiniFile, current_section, key)
        data == mini_file_section_data_new(key, value, malloc_ok, key_ok, value_ok)
    IN  IF NoSectionOrCurrent(MiniFile)
        THEN /\ call' = Call("mini_file_insert_key_and_value", "", key, value, RET_NULL)
             /\ UNCHANGED <<section, current_section, first_selected, heap>>
        ELSE IF found = ABORTNUM
        THEN \* the current section pointer refers to no section: invalid read
             /\ call' = Call("mini_file_insert_key_and_value", "", key, value, ABORT)
             /\ UNCHANGED <<section, current_section, first_selected, heap>>
        ELSE IF found # 0
        THEN /\ call' = Call("mini_file_insert_key_and_value", "", key, value, RET_FILE)
             /\ UNCHANGED <<section, current_section, first_selected, heap>>
        ELSE IF data = <<>>
        THEN /\ call' = Call("mini_file_insert_key_and_value", "", key, value, RET_NULL)
             /\ UNCHANGED <<section, current_section, first_selected, heap>>
        ELSE /\ TotalEntries(section) < MaxEntries
             /\ section' = LinkData(MiniFile, data)
             /\ heap' = heap \cup DataBlocks(section[1].addr,
                                            Len(section[1].data) + 1, data[1])
             /\ call' = Call("mini_file_insert_key_and_value", "", key, value, RET_FILE)
             /\ UNCHANGED <<current_section, first_selected>>

InsertSection ==
    \E section_name \in Names, malloc_ok \in BOOLEAN :
        mini_file_insert_section(section_name, malloc_ok, TRUE)

InsertKeyAndValue ==
    \E pair \in Pairs, malloc_ok \in BOOLEAN :
        mini_file_insert_key_and_value(pair[1], pair[2], malloc_ok, TRUE, TRUE)

(* ---- queries ---- *)

\* unsigned int arithmetic: num++ wraps at UINT_MAX.
UIntInc(n) == (n + 1) % (UINT_MAX + 1)

\* The value of an int converted to unsigned int for the comparison with an
\* unsigned int.
ToUnsigned(i) == i % (UINT_MAX + 1)

\* The counting loop of mini_file_get_number_of_sections and of
\* mini_file_get_number_of_keys over a list, from node i on.
RECURSIVE count_loop(_, _, _)
count_loop(list, i, num) ==
    IF i > Len(list) THEN num ELSE count_loop(list, i + 1, UIntInc(num))

\* mini_file_get_number_of_sections
mini_file_get_number_of_sections(mini_file) ==
    count_loop(mini_file.section, 1, 0)

\* mini_file_get_number_of_keys: 0 when the section is not found.
mini_file_get_number_of_keys(mini_file, name) ==
    LET sec == mini_file_find_section(mini_file, name)
    IN  IF sec = NULL THEN 0
        ELSE count_loop(mini_file.section[NodeOf(mini_file, sec)].data, 1, 0)

\* The value of an unsigned int converted to int.
ToSigned(n) == IF n > INT_MAX THEN n - (UINT_MAX + 1) ELSE n

\* Mutant of position_loop: i and pos are compared as ints.
RECURSIVE position_loop_signed(_, _, _, _)
position_loop_signed(list, node, i, pos) ==
    IF i < ToSigned(pos) /\ node <= Len(list)
    THEN IF i = INT_MAX THEN ABORTNUM
         ELSE position_loop_signed(list, node + 1, i + 1, pos)
    ELSE node

\* The positional loop of mini_file_get_section and mini_file_get_key:
\* for (i = 0; (i < pos && node != NULL); i++) node = node->next;
\* i is an int, pos an unsigned int.  The result is the node reached (a
\* position of the list, Len(list) + 1 for NULL), or ABORTNUM when i++
\* overflows the int, which is undefined.
RECURSIVE position_loop(_, _, _, _)
position_loop(list, node, i, pos) ==
    IF ToUnsigned(i) < pos /\ node <= Len(list)
    THEN IF i = INT_MAX THEN ABORTNUM
         ELSE position_loop(list, node + 1, i + 1, pos)
    ELSE node

\* mini_file_get_section: the name of the section at section_pos, or NULL.
mini_file_get_section(mini_file, section_pos) ==
    LET sec == position_loop(mini_file.section, 1, 0, section_pos)
    IN  IF sec = ABORTNUM THEN ABORT
        ELSE IF sec <= Len(mini_file.section) THEN mini_file.section[sec].name
        ELSE NULLSTR

\* mini_file_get_key: the key at key_pos of the named section, or NULL.
mini_file_get_key(mini_file, name, key_pos) ==
    LET sec == mini_file_find_section(mini_file, name)
        list == mini_file.section[NodeOf(mini_file, sec)].data
        data == position_loop(list, 1, 0, key_pos)
    IN  IF sec = NULL THEN NULLSTR
        ELSE IF data = ABORTNUM THEN ABORT
        ELSE IF data <= Len(list) THEN list[data].key
        ELSE NULLSTR

\* Mutant of mini_file_get_value: the section found is not tested for NULL.
get_value_unchecked(mini_file, name, key) ==
    LET sec == mini_file_find_section(mini_file, name)
        data == mini_file_find_key(mini_file, sec, key)
    IN  IF data = ABORTNUM THEN ABORT
        ELSE IF data = 0 THEN NULLSTR
        ELSE mini_file.section[NodeOf(mini_file, sec)].data[data].value

\* mini_file_get_value: the value of the key in the named section, or NULL.
mini_file_get_value(mini_file, name, key) ==
    LET sec == mini_file_find_section(mini_file, name)
        data == mini_file_find_key(mini_file, sec, key)
    IN  IF sec = NULL THEN NULLSTR
        ELSE IF data = ABORTNUM THEN ABORT
        ELSE IF data = 0 THEN NULLSTR
        ELSE mini_file.section[NodeOf(mini_file, sec)].data[data].value

GetNumberOfSections ==
    /\ call' = QueryNum("mini_file_get_number_of_sections", "",
                        mini_file_get_number_of_sections(MiniFile))
    /\ UNCHANGED <<section, current_section, first_selected, heap>>

GetNumberOfKeys ==
    \E name \in Names :
        /\ call' = QueryNum("mini_file_get_number_of_keys", name,
                            mini_file_get_number_of_keys(MiniFile, name))
        /\ UNCHANGED <<section, current_section, first_selected, heap>>

\* Mutant of GetSection: the loop advances mini_file->section itself.
GetSectionMovingHead ==
    \E pos \in QueryPositions :
        /\ call' = QueryStr("mini_file_get_section", "", "", pos,
                            mini_file_get_section(MiniFile, pos))
        /\ section' = SubSeq(section, position_loop(section, 1, 0, pos),
                             Len(section))
        /\ UNCHANGED <<current_section, first_selected, heap>>

GetSection ==
    \E pos \in QueryPositions :
        /\ call' = QueryStr("mini_file_get_section", "", "", pos,
                            mini_file_get_section(MiniFile, pos))
        /\ UNCHANGED <<section, current_section, first_selected, heap>>

GetKey ==
    \E name \in Names, pos \in QueryPositions :
        /\ call' = QueryStr("mini_file_get_key", name, "", pos,
                            mini_file_get_key(MiniFile, name, pos))
        /\ UNCHANGED <<section, current_section, first_selected, heap>>

GetValue ==
    \E name \in Names, key \in Keys :
        /\ call' = QueryStr("mini_file_get_value", name, key, 0,
                            mini_file_get_value(MiniFile, name, key))
        /\ UNCHANGED <<section, current_section, first_selected, heap>>

Next ==
    \/ InsertSection
    \/ InsertKeyAndValue
    \/ GetNumberOfSections
    \/ GetNumberOfKeys
    \/ GetSection
    \/ GetKey
    \/ GetValue

Spec == Init /\ [][Next]_vars

(* ---- destruction ---- *)

\* Mutant of mini_file_section_data_free: the key and the value are not
\* freed.
RECURSIVE section_data_free_nodes_only(_, _, _)
section_data_free_nodes_only(addr, data, j) ==
    IF j > Len(data) THEN <<>>
    ELSE <<Block("SectionData", addr, Len(data) - j + 1)>>
         \o section_data_free_nodes_only(addr, data, j + 1)

\* mini_file_section_data_free from node j of the data list of the section
\* at addr on: the blocks passed to free, in order.  free(NULL) does nothing.
RECURSIVE mini_file_section_data_free(_, _, _)
mini_file_section_data_free(addr, data, j) ==
    IF j > Len(data) THEN <<>>
    ELSE LET num == Len(data) - j + 1
         IN  (IF data[j].key # NULLSTR THEN <<Block("key", addr, num)>> ELSE <<>>)
             \o (IF data[j].value # NULLSTR THEN <<Block("value", addr, num)>> ELSE <<>>)
             \o <<Block("SectionData", addr, num)>>
             \o mini_file_section_data_free(addr, data, j + 1)

\* mini_file_section_free from node i of the section list on: the blocks
\* passed to free, in order.
RECURSIVE mini_file_section_free(_, _)
mini_file_section_free(list, i) ==
    IF i > Len(list) THEN <<>>
    ELSE mini_file_section_data_free(list[i].addr, list[i].data, 1)
         \o (IF list[i].name # NULLSTR THEN <<Block("name", list[i].addr, 0)>> ELSE <<>>)
         \o <<Block("Section", list[i].addr, 0)>>
         \o mini_file_section_free(list, i + 1)

\* mini_file_free of a MiniFile that is not NULL: the blocks passed to
\* free, in order.
mini_file_free(mini_file) ==
    mini_file_section_free(mini_file.section, 1)
        \o <<Block("file_name", 0, 0), Block("MiniFile", 0, 0)>>

\* Every block of the sequence is allocated when it is passed to free: the
\* blocks are in the heap and none occurs twice.
ValidFrees(frees, blocks) ==
    /\ \A i \in 1 .. Len(frees) : frees[i] \in blocks
    /\ \A i, j \in 1 .. Len(frees) : i # j => frees[i] # frees[j]

\* The MiniFile has not been freed.
Alive == Block("MiniFile", 0, 0) \in heap

\* mini_file_free(mini_file)
Free ==
    LET frees == mini_file_free(MiniFile)
    IN  /\ Alive
        /\ heap' = heap \ Range(frees)
        /\ section' = <<>>
        /\ call' = Call("mini_file_free", "mini_file", "", "",
                        IF ValidFrees(frees, heap) THEN RET_VOID ELSE ABORT)
        /\ UNCHANGED <<current_section, first_selected>>

\* mini_file_free(NULL)
FreeNull ==
    /\ call' = Call("mini_file_free", "NULL", "", "", RET_VOID)
    /\ UNCHANGED <<section, current_section, first_selected, heap>>

\* The calls on a MiniFile that has not been freed, and mini_file_free.
NextFree ==
    \/ Alive /\ Next
    \/ Free
    \/ FreeNull

SpecFree == Init /\ [][NextFree]_vars

(* ---- calls in which strdup fails ---- *)

\* Number of NULL strings stored in the nodes of the file.
RECURSIVE NullStrings(_)
NullStrings(list) ==
    IF list = <<>> THEN 0
    ELSE (IF Head(list).name = NULLSTR THEN 1 ELSE 0)
         + Cardinality({j \in 1 .. Len(Head(list).data) :
                           Head(list).data[j].key = NULLSTR})
         + Cardinality({j \in 1 .. Len(Head(list).data) :
                           Head(list).data[j].value = NULLSTR})
         + NullStrings(Tail(list))

\* The loop of mini_file_find_section passes a NULL name to strcmp before
\* it finds the name.
RECURSIVE ReadsNullName(_, _, _)
ReadsNullName(list, i, name) ==
    IF i > Len(list) THEN FALSE
    ELSE IF list[i].name = NULLSTR THEN TRUE
    ELSE IF list[i].name = name THEN FALSE
    ELSE ReadsNullName(list, i + 1, name)

\* The loop of mini_file_find_key passes a NULL key to strcmp before it
\* finds the key.
RECURSIVE ReadsNullKey(_, _, _)
ReadsNullKey(data, i, key) ==
    IF i > Len(data) THEN FALSE
    ELSE IF data[i].key = NULLSTR THEN TRUE
    ELSE IF data[i].key = key THEN FALSE
    ELSE ReadsNullKey(data, i + 1, key)

\* The call c, made in the current state, passes a NULL string to strcmp,
\* which is undefined.
UndefinedRead(c) ==
    LET sec == NodeOf(MiniFile, mini_file_find_section(MiniFile, c.name))
        cur == NodeOf(MiniFile, current_section)
    IN  CASE c.op = "mini_file_insert_section" -> ReadsNullName(section, 1, c.name)
          [] c.op = "mini_file_insert_key_and_value" ->
                /\ ~NoSectionOrCurrent(MiniFile)
                /\ cur # 0
                /\ ReadsNullKey(section[cur].data, 1, c.key)
          [] c.op \in {"mini_file_get_number_of_keys", "mini_file_get_key"} ->
                ReadsNullName(section, 1, c.name)
          [] c.op = "mini_file_get_value" ->
                \/ ReadsNullName(section, 1, c.name)
                \/ sec # 0 /\ ReadsNullKey(section[sec].data, 1, c.key)
          [] OTHER -> FALSE

\* The calls with the arguments the caller passes, before they return.
Calls ==
    {Call("mini_file_insert_section", name, "", "", ABORT) : name \in Names}
    \cup {Call("mini_file_insert_key_and_value", "", pair[1], pair[2], ABORT) :
              pair \in Pairs}
    \cup {QueryStr("mini_file_get_number_of_keys", name, "", 0, ABORT) :
              name \in Names}
    \cup {QueryStr("mini_file_get_key", name, "", pos, ABORT) :
              name \in Names, pos \in QueryPositions}
    \cup {QueryStr("mini_file_get_value", name, key, 0, ABORT) :
              name \in Names, key \in Keys}

\* mini_file_insert_section creates the section and strdup of the name
\* fails.
InsertSectionNoMemory ==
    \E section_name \in Names :
        /\ NullStrings(section) < MaxStrdupFailures
        /\ mini_file_find_section(MiniFile, section_name) = NULL
        /\ mini_file_insert_section(section_name, TRUE, FALSE)

\* mini_file_insert_key_and_value creates the node and strdup of the key or
\* of the value fails.
InsertKeyAndValueNoMemory ==
    \E pair \in Pairs, key_ok \in BOOLEAN, value_ok \in BOOLEAN :
        /\ ~(key_ok /\ value_ok)
        /\ NullStrings(section) + (IF key_ok \/ value_ok THEN 0 ELSE 1)
               < MaxStrdupFailures
        /\ mini_file_insert_key_and_value(pair[1], pair[2], TRUE, key_ok, value_ok)
        /\ section' # section

\* A call passes a NULL string to strcmp: undefined behaviour, recorded as
\* ABORT.
UndefinedCall ==
    \E c \in Calls :
        /\ UndefinedRead(c)
        /\ call' = c
        /\ UNCHANGED <<section, current_section, first_selected, heap>>

\* The calls of Next that pass no NULL string to strcmp, the calls in which
\* strdup fails, and the calls that pass a NULL string to strcmp: these are
\* undefined, and nothing is stated about the file after one of them.
NextOOM ==
    \/ Next /\ ~UndefinedRead(call')
    \/ InsertSectionNoMemory
    \/ InsertKeyAndValueNoMemory
    \/ UndefinedCall

SpecOOM == Init /\ [][NextOOM]_vars

(* ---- views of the state used by the properties ---- *)

\* The positions of the sections with that name.
SectionsNamed(list, name) == {i \in 1 .. Len(list) : list[i].name = name}

\* The positions of the entries of a data list with that key.
EntriesKeyed(data, key) == {j \in 1 .. Len(data) : data[j].key = key}

\* The position of the section the current section pointer refers to.
CurrentNode == NodeOf(MiniFile, current_section)

\* The last call was a successful insertion of a key and value.
InsertedKey ==
    call.op = "mini_file_insert_key_and_value" /\ call.ret = RET_FILE

(* ---- C1 ---- *)

\* C1: a successful insertion of a key that the current section does not
\* hold adds the new entry at the head of the data of the current section,
\* and leaves the data of every other section as it was.
C1_InsertIntoCurrentSection ==
    [][(/\ call'.op = "mini_file_insert_key_and_value"
        /\ call'.ret = RET_FILE
        /\ CurrentNode # 0
        /\ EntriesKeyed(section[CurrentNode].data, call'.key) = {})
       => section' = [section EXCEPT ![CurrentNode].data =
                          <<[key |-> call'.key, value |-> call'.value]>> \o @]]_vars

(* ---- C2 ---- *)

\* C2: in every reachable state the keys of the entries of each section
\* are pairwise distinct.
C2_KeysDistinct ==
    \A i \in 1 .. Len(section) :
        \A j, k \in 1 .. Len(section[i].data) :
            j # k => section[i].data[j].key # section[i].data[k].key

(* ---- C3 ---- *)

\* C3: in every reachable state the names of the sections of the file are
\* pairwise distinct.
C3_SectionNamesDistinct ==
    \A i, j \in 1 .. Len(section) :
        i # j => section[i].name # section[j].name

\* A section that is not the head was selected again while three sections
\* exist.
C3_Witness ==
    /\ Len(section) = 3
    /\ call.op = "mini_file_insert_section"
    /\ call.ret = RET_FILE
    /\ call.name = section[3].name
    /\ current_section = section[3].addr

(* ---- C4 ---- *)

\* C4: once mini_file_get_value returns a value for a section and a key, it
\* returns the same value after every later call.
C4_FirstWriteWins ==
    [][\A name \in Names, key \in Keys :
          mini_file_get_value(MiniFile, name, key) # NULLSTR
          => mini_file_get_value(MiniFile', name, key)
                 = mini_file_get_value(MiniFile, name, key)]_vars


(* ---- C5 ---- *)

\* C5: mini_file_insert_section with a name that exists returns the file,
\* leaves the list of sections and all their data as they were and makes the
\* existing section current; and after every successful
\* mini_file_insert_section exactly one section has the name given.
C5_SelectIdempotent ==
    /\ [](call.op = "mini_file_insert_section" /\ call.ret = RET_FILE
            => Cardinality(SectionsNamed(section, call.name)) = 1)
    /\ [][(/\ call'.op = "mini_file_insert_section"
           /\ SectionsNamed(section, call'.name) # {})
          => /\ call'.ret = RET_FILE
             /\ section' = section
             /\ mini_file_get_number_of_sections(MiniFile')
                    = mini_file_get_number_of_sections(MiniFile)
             /\ \E i \in SectionsNamed(section, call'.name) :
                    current_section' = section[i].addr]_vars

\* A section that is not the head was selected again and is now current,
\* while the head section holds data.
C5_Witness ==
    /\ Len(section) >= 2
    /\ section[1].data # <<>>
    /\ call.op = "mini_file_insert_section"
    /\ call.ret = RET_FILE
    /\ call.name = section[2].name
    /\ current_section = section[2].addr

(* ---- C6 ---- *)

\* C6: mini_file_get_section lists the names in the reverse order of their
\* first insertion, and the insertion of a new name puts it at position 0
\* without keys and moves every earlier section one position up.
C6_NewestSectionFirst ==
    /\ [](/\ mini_file_get_number_of_sections(MiniFile) = Len(first_selected)
          /\ \A i \in 0 .. Len(first_selected) - 1 :
                 mini_file_get_section(MiniFile, i)
                     = first_selected[Len(first_selected) - i])
    /\ [][(/\ call'.op = "mini_file_insert_section"
           /\ call'.ret = RET_FILE
           /\ SectionsNamed(section, call'.name) = {})
          => /\ mini_file_get_section(MiniFile', 0) = call'.name
             /\ mini_file_get_number_of_keys(MiniFile', call'.name) = 0
             /\ mini_file_get_number_of_sections(MiniFile')
                    = mini_file_get_number_of_sections(MiniFile) + 1
             /\ \A i \in 0 .. mini_file_get_number_of_sections(MiniFile) - 1 :
                    mini_file_get_section(MiniFile', i + 1)
                        = mini_file_get_section(MiniFile, i)]_vars

\* A third section was just created in front of two earlier ones, the
\* older of which holds data.
C6_Witness ==
    /\ Len(section) = 3
    /\ call.op = "mini_file_insert_section"
    /\ call.ret = RET_FILE
    /\ call.name = section[1].name
    /\ first_selected = <<section[3].name, section[2].name, section[1].name>>
    /\ section[2].data # <<>>

(* ---- C7 ---- *)

\* C7: as long as no mini_file_insert_section has succeeded,
\* mini_file_insert_key_and_value returns NULL and the file stays without
\* sections.
C7_InsertKeyBeforeSection ==
    (call.op = "mini_file_insert_key_and_value" /\ first_selected = <<>>)
    => (call.ret = RET_NULL /\ section = <<>>)

\* The insertion was tried on a new file whose current section pointer was
\* never assigned.
C7_Witness ==
    /\ call.op = "mini_file_insert_key_and_value"
    /\ first_selected = <<>>
    /\ current_section = Garbage
    /\ call.key = "k2"

(* ---- C8 ---- *)

\* C8: when mini_file_insert_section(name) is followed by a successful
\* mini_file_insert_key_and_value(key, value) of a key the section did not
\* hold, the section holds the value under the key and one key more, and
\* the value of the key and the number of keys of every other section are
\* as before.
C8_ReadYourWrite ==
    [][(/\ call.op = "mini_file_insert_section"
        /\ call.ret = RET_FILE
        /\ call'.op = "mini_file_insert_key_and_value"
        /\ call'.ret = RET_FILE
        /\ mini_file_get_value(MiniFile, call.name, call'.key) = NULLSTR)
       => /\ mini_file_get_value(MiniFile', call.name, call'.key) = call'.value
          /\ mini_file_get_number_of_keys(MiniFile', call.name)
                 = mini_file_get_number_of_keys(MiniFile, call.name) + 1
          /\ \A other \in Names \ {call.name} :
                 /\ mini_file_get_value(MiniFile', other, call'.key)
                        = mini_file_get_value(MiniFile, other, call'.key)
                 /\ mini_file_get_number_of_keys(MiniFile', other)
                        = mini_file_get_number_of_keys(MiniFile, other)]_vars

(* ---- C9 ---- *)

\* C9: mini_file_get_value is NULL when the section does not exist or holds
\* no entry with the key, mini_file_get_key is NULL and
\* mini_file_get_number_of_keys is 0 when the section does not exist, and
\* none of them aborts, for every name, key and position.
C9_MissingIsAbsent ==
    \A name \in Names \cup {NoName} :
        LET missing == SectionsNamed(section, name) = {}
        IN  /\ mini_file_get_number_of_keys(MiniFile, name) # ABORTNUM
            /\ missing => mini_file_get_number_of_keys(MiniFile, name) = 0
            /\ \A pos \in Positions :
                   LET key_name == mini_file_get_key(MiniFile, name, pos)
                   IN  key_name # ABORT /\ (missing => key_name = NULLSTR)
            /\ \A key \in Keys \cup {NoKey} :
                   LET value == mini_file_get_value(MiniFile, name, key)
                   IN  /\ value # ABORT
                       /\ missing => value = NULLSTR
                       /\ (\A i \in SectionsNamed(section, name) :
                              EntriesKeyed(section[i].data, key) = {})
                             => value = NULLSTR

\* mini_file_get_value was asked for a section that does not exist while
\* another section holds the key, and a third section holds another key only.
C9_Witness ==
    /\ call.op = "mini_file_get_value"
    /\ call.ret = NULLSTR
    /\ SectionsNamed(section, call.name) = {}
    /\ Len(section) = 2
    /\ EntriesKeyed(section[1].data, call.key) # {}
    /\ section[2].data # <<>>
    /\ EntriesKeyed(section[2].data, call.key) = {}

(* ---- C10 ---- *)

\* C10: mini_file_get_section is NULL exactly for the positions from the
\* number of sections on, and for every section that exists
\* mini_file_get_key is NULL exactly for the positions from its number of
\* keys on.
C10_PositionsAgreeWithCounts ==
    /\ LET num_sections == mini_file_get_number_of_sections(MiniFile)
       IN  \A pos \in Positions :
               (mini_file_get_section(MiniFile, pos) = NULLSTR)
                   <=> (pos >= num_sections)
    /\ \A i \in 1 .. Len(section) :
           LET num_keys == mini_file_get_number_of_keys(MiniFile, section[i].name)
           IN  \A pos \in Positions :
                   (mini_file_get_key(MiniFile, section[i].name, pos) = NULLSTR)
                       <=> (pos >= num_keys)

\* mini_file_get_key was asked for the largest position of a section that
\* holds two keys, while another section is empty.
C10_Witness ==
    /\ call.op = "mini_file_get_key"
    /\ call.pos = UINT_MAX
    /\ call.ret = NULLSTR
    /\ Len(section) >= 2
    /\ \E i \in SectionsNamed(section, call.name) : Len(section[i].data) = 2


(* ---- C11 ---- *)

\* A call in which the malloc of the node or a strdup fails.
SectionAllocationFails ==
    \E section_name \in Names, malloc_ok \in BOOLEAN, strdup_ok \in BOOLEAN :
        /\ ~(malloc_ok /\ strdup_ok)
        /\ mini_file_find_section(MiniFile, section_name) = NULL
        /\ mini_file_insert_section(section_name, malloc_ok, strdup_ok)

DataAllocationFails ==
    \E pair \in Pairs, malloc_ok \in BOOLEAN, key_ok \in BOOLEAN,
       value_ok \in BOOLEAN :
        /\ ~(malloc_ok /\ key_ok /\ value_ok)
        /\ ~NoSectionOrCurrent(MiniFile)
        /\ mini_file_find_key(MiniFile, current_section, pair[1]) = 0
        /\ mini_file_insert_key_and_value(pair[1], pair[2], malloc_ok, key_ok, value_ok)

\* C11: a call in which an allocation fails returns NULL and leaves the
\* sections and their data as they were, and no node that lacks its name,
\* key or value is ever linked.
C11_AllocationFailureLeavesFile ==
    /\ [](\A i \in 1 .. Len(section) :
             /\ section[i].name # NULLSTR
             /\ \A j \in 1 .. Len(section[i].data) :
                    /\ section[i].data[j].key # NULLSTR
                    /\ section[i].data[j].value # NULLSTR)
    /\ [][(SectionAllocationFails \/ DataAllocationFails)
            => (call'.ret = RET_NULL /\ section' = section)]_vars


(* ---- C12 ---- *)

\* C12: a successful mini_file_insert_section makes the section of the
\* given name current, and no other call changes the current section.
C12_OnlySelectMovesCurrent ==
    [][/\ (call'.op = "mini_file_insert_section" /\ call'.ret = RET_FILE)
          => \E i \in 1 .. Len(section') :
                 /\ section'[i].name = call'.name
                 /\ current_section' = section'[i].addr
       /\ call'.op # "mini_file_insert_section"
          => current_section' = current_section]_vars

\* A key was inserted while the second of three sections was current, and
\* it still is.
C12_Witness ==
    /\ InsertedKey
    /\ Len(section) = 3
    /\ current_section = section[2].addr
    /\ section[1].data # <<>>

(* ---- C13 ---- *)

\* C13: mini_file_free of a file passes to free every allocated block, each
\* once and no other, so that nothing stays allocated; mini_file_free(NULL)
\* changes nothing.
C13_FreeReleasesAll ==
    [][/\ (call'.op = "mini_file_free" /\ call'.name = "mini_file")
          => /\ ValidFrees(mini_file_free(MiniFile), heap)
             /\ Range(mini_file_free(MiniFile)) = heap
             /\ call'.ret = RET_VOID
             /\ heap' = {}
       /\ (call'.op = "mini_file_free" /\ call'.name = "NULL")
          => UNCHANGED <<section, current_section, heap>>]_vars

\* A file in which three sections were inserted has been freed.
C13_Witness ==
    /\ call.op = "mini_file_free"
    /\ call.name = "mini_file"
    /\ Len(first_selected) = 3
    /\ heap = {}


(* ---- C14 ---- *)

\* C14: mini_file_insert_key_and_value with a key that the current section
\* holds returns the file and leaves the sections, their data and the
\* current section as they were.
C14_DuplicateKeyIsNoOp ==
    [][(/\ call'.op = "mini_file_insert_key_and_value"
        /\ CurrentNode # 0
        /\ EntriesKeyed(section[CurrentNode].data, call'.key) # {})
       => /\ call'.ret = RET_FILE
          /\ section' = section
          /\ current_section' = current_section
          /\ heap' = heap]_vars

\* The current section holds the key with another value than the one of
\* the call, which returned the file.
C14_Witness ==
    /\ InsertedKey
    /\ CurrentNode # 0
    /\ EntriesKeyed(section[CurrentNode].data, call.key) # {}
    /\ \A j \in EntriesKeyed(section[CurrentNode].data, call.key) :
           section[CurrentNode].data[j].value # call.value

(* ---- C15 ---- *)

QueryOps ==
    {"mini_file_get_number_of_sections", "mini_file_get_number_of_keys",
     "mini_file_get_section", "mini_file_get_key", "mini_file_get_value"}

\* The call c returns in the file mini_file what it is recorded to have
\* returned.
SameResult(c, mini_file) ==
    CASE c.op = "mini_file_get_number_of_sections" ->
            c.count = mini_file_get_number_of_sections(mini_file)
      [] c.op = "mini_file_get_number_of_keys" ->
            c.count = mini_file_get_number_of_keys(mini_file, c.name)
      [] c.op = "mini_file_get_section" ->
            c.ret = mini_file_get_section(mini_file, c.pos)
      [] c.op = "mini_file_get_key" ->
            c.ret = mini_file_get_key(mini_file, c.name, c.pos)
      [] c.op = "mini_file_get_value" ->
            c.ret = mini_file_get_value(mini_file, c.name, c.key)

\* C15: a query leaves the sections, their order, their data and the
\* current section as they were, and the same query made again returns the
\* same result.
C15_QueriesChangeNothing ==
    [][call'.op \in QueryOps
       => /\ section' = section
          /\ current_section' = current_section
          /\ heap' = heap
          /\ SameResult(call', MiniFile')]_vars

\* mini_file_get_key returned the second key of a section.
C15_Witness ==
    /\ call.op = "mini_file_get_key"
    /\ call.pos = 1
    /\ call.ret # NULLSTR
    /\ Len(section) >= 2

(* ---- C16 ---- *)

\* C16: on every step of insertions and queries the sections that exist
\* stay, in the same order behind the new one, every key that has a value
\* in a section keeps having one, and no count decreases.
C16_NothingRemoved ==
    [][\/ section' = section
       \/ /\ Len(section') >= Len(section)
          /\ \A i \in 1 .. Len(section) :
                 section'[i + Len(section') - Len(section)].name
                     = section[i].name
          /\ mini_file_get_number_of_sections(MiniFile')
                 >= mini_file_get_number_of_sections(MiniFile)
          /\ \A name \in Names :
                 /\ mini_file_get_number_of_keys(MiniFile', name)
                        >= mini_file_get_number_of_keys(MiniFile, name)
                 /\ \A key \in Keys :
                        mini_file_get_value(MiniFile, name, key) # NULLSTR
                        => mini_file_get_value(MiniFile', name, key)
                               # NULLSTR]_vars

\* A third section was created while the two earlier ones hold data.
C16_Witness ==
    /\ Len(section) = 3
    /\ call.op = "mini_file_insert_section"
    /\ call.name = section[1].name
    /\ section[2].data # <<>>
    /\ section[3].data # <<>>

(* ---- C17 ---- *)

\* The keys mini_file_get_key enumerates for a section, position 0 first.
KeyNames(mini_file, name) ==
    [i \in 1 .. mini_file_get_number_of_keys(mini_file, name) |->
        mini_file_get_key(mini_file, name, i - 1)]

\* C17: a successful insertion of a key that the current section does not
\* hold puts the key in front of the keys mini_file_get_key enumerates for
\* that section, and no other step changes the enumeration of a section:
\* the enumeration is the reverse of the order of insertion.
C17_NewestKeyFirst ==
    [][\A i \in 1 .. Len(section) :
          IF /\ call'.op = "mini_file_insert_key_and_value"
             /\ call'.ret = RET_FILE
             /\ i = CurrentNode
             /\ EntriesKeyed(section[i].data, call'.key) = {}
          THEN KeyNames(MiniFile', section[i].name)
                   = <<call'.key>> \o KeyNames(MiniFile, section[i].name)
          ELSE KeyNames(MiniFile', section[i].name)
                   = KeyNames(MiniFile, section[i].name)]_vars

(* ---- C19 ---- *)

\* C19: whenever the file has a section the current section pointer refers
\* to a section of the list, the guard of mini_file_insert_key_and_value
\* rejects exactly the states in which no mini_file_insert_section has
\* succeeded, and no call reads through an invalid pointer.
C19_CurrentSectionValid ==
    /\ section # <<>> => CurrentNode # 0
    /\ NoSectionOrCurrent(MiniFile) <=> first_selected = <<>>
    /\ call.ret # ABORT

\* A key was inserted through the current section pointer while an older
\* section is current.
C19_Witness ==
    /\ InsertedKey
    /\ Len(section) = 2
    /\ CurrentNode = 2
    /\ call.key = "k2"

(* ---- C20 ---- *)

\* C20: every name mini_file_get_section returns is found by name, every
\* key mini_file_get_key returns at a position has in mini_file_get_value
\* the value stored at that position, and the number of keys that have a
\* value in a section is its number of keys.
C20_EnumerationAgreesWithLookup ==
    /\ \A pos \in 0 .. mini_file_get_number_of_sections(MiniFile) - 1 :
           mini_file_find_section(MiniFile, mini_file_get_section(MiniFile, pos))
               # NULL
    /\ \A i \in 1 .. Len(section) :
           LET name == section[i].name
               num_keys == mini_file_get_number_of_keys(MiniFile, name)
           IN  /\ \A pos \in 0 .. num_keys - 1 :
                      LET key == mini_file_get_key(MiniFile, name, pos)
                      IN  /\ mini_file_get_value(MiniFile, name, key) # NULLSTR
                          /\ mini_file_get_value(MiniFile, name, key)
                                 = section[i].data[pos + 1].value
               /\ Cardinality({key \in Keys :
                       mini_file_get_value(MiniFile, name, key) # NULLSTR})
                      = num_keys


(* ---- C18: long lists ---- *)

\* The longest list has two nodes more than an int counts.
MaxLong == INT_MAX + 2

\* The section list after mini_file_insert_section was called with the
\* names "1" .. "n" in that order; the newest is the head.
LongSections(n) ==
    [i \in 1 .. n |->
        [addr |-> n - i + 1, name |-> ToString(n - i + 1), data |-> <<>>]]

\* The data list after mini_file_insert_key_and_value was called with the
\* keys "1" .. "n" in that order; the newest is the head.
LongData(n) ==
    [i \in 1 .. n |-> [key |-> ToString(n - i + 1), value |-> "v"]]

\* The blocks of a section list.
ListBlocks(list) ==
    UNION {SectionBlocks(list[i])
               \cup UNION {DataBlocks(list[i].addr, j,
                                      list[i].data[Len(list[i].data) - j + 1])
                               : j \in 1 .. Len(list[i].data)}
              : i \in 1 .. Len(list)}

\* A file of n sections without data, or of the one section "1" that holds
\* n keys; the section created last is current.
InitLong ==
    /\ \E n \in 0 .. MaxLong :
           \/ section = LongSections(n)
           \/ /\ n > 0
              /\ section = <<[addr |-> 1, name |-> "1", data |-> LongData(n)]>>
    /\ IF section = <<>>
       THEN current_section \in {NULL, Garbage}
       ELSE current_section = section[1].addr
    /\ call = Call("mini_file_new", "", "", "", RET_FILE)
    /\ first_selected = [i \in 1 .. Len(section) |-> ToString(i)]
    /\ heap = {Block("MiniFile", 0, 0), Block("file_name", 0, 0)}
                  \cup ListBlocks(section)

\* The positional loop when i++ wraps from INT_MAX to INT_MIN: converted
\* to unsigned int for the comparison, i counts modulo UINT_MAX + 1.
RECURSIVE position_loop_wrap(_, _, _, _)
position_loop_wrap(list, node, i, pos) ==
    IF i < pos /\ node <= Len(list)
    THEN position_loop_wrap(list, node + 1, UIntInc(i), pos)
    ELSE node

\* What the positional loop can give: its result, and when i++ overflows
\* either the abort of a trapping build or the result of a wrapping one.
PositionOutcomes(list, pos) ==
    IF position_loop(list, 1, 0, pos) = ABORTNUM
    THEN {ABORTNUM, position_loop_wrap(list, 1, 0, pos)}
    ELSE {position_loop(list, 1, 0, pos)}

\* mini_file_get_section over every unsigned position.
GetSectionLong ==
    \E pos \in 0 .. UINT_MAX :
        \E sec \in PositionOutcomes(section, pos) :
            /\ call' = QueryStr("mini_file_get_section", "", "", pos,
                                IF sec = ABORTNUM THEN ABORT
                                ELSE IF sec <= Len(section)
                                THEN section[sec].name
                                ELSE NULLSTR)
            /\ UNCHANGED <<section, current_section, first_selected, heap>>

\* mini_file_get_key of the section "1" over every unsigned position.
GetKeyLong ==
    \E pos \in 0 .. UINT_MAX :
        LET sec == mini_file_find_section(MiniFile, "1")
            list == section[NodeOf(MiniFile, sec)].data
        IN  /\ \/ /\ sec = NULL
                  /\ call' = QueryStr("mini_file_get_key", "1", "", pos, NULLSTR)
               \/ /\ sec # NULL
                  /\ \E data \in PositionOutcomes(list, pos) :
                         call' = QueryStr("mini_file_get_key", "1", "", pos,
                                          IF data = ABORTNUM THEN ABORT
                                          ELSE IF data <= Len(list)
                                          THEN list[data].key
                                          ELSE NULLSTR)
            /\ UNCHANGED <<section, current_section, first_selected, heap>>

NextLong ==
    \/ GetSectionLong
    \/ GetKeyLong

SpecLong == InitLong /\ [][NextLong]_vars

\* C18: for every unsigned position mini_file_get_section and
\* mini_file_get_key end without an overflow of the int counter, and
\* return the element at the position when it is below the number of
\* elements, NULL otherwise.
C18_PositionalLookupWholeRange ==
    /\ call.op = "mini_file_get_section"
       => /\ call.ret # ABORT
          /\ call.ret = IF call.pos < Len(section)
                        THEN section[call.pos + 1].name
                        ELSE NULLSTR
    /\ (call.op = "mini_file_get_key" /\ NodeOf(MiniFile, 1) # 0)
       => /\ call.ret # ABORT
          /\ call.ret = IF call.pos < Len(section[NodeOf(MiniFile, 1)].data)
                        THEN section[NodeOf(MiniFile, 1)].data[call.pos + 1].key
                        ELSE NULLSTR

====
